---- MODULE Spec2Model ----
(***************************************************************************)
(* RecordDecoderV1 of dingo-serial (src/serial/record/record_decoder.cc):  *)
(* header validation, full decode, key-only decode and projected decode of *)
(* a key/value byte pair against an ordered schema list.                   *)
(*                                                                         *)
(* The byte cursor (Buf) and the per-type column schemas (DingoSchema<T>)  *)
(* are collaborators whose code is not part of record_decoder.cc; they are *)
(* modelled from the interface and byte layout the specification gives.    *)
(***************************************************************************)
EXTENDS Integers, Sequences, FiniteSets, TLC

\* ------------------------------------------------------------------ bounds

\* Longest schema list the model enumerates.
MaxSlots == 3

\* Longest projection (column_indexes) the model enumerates.
MaxProj == 2

\* ------------------------------------------------------------- byte helpers

\* The four bytes of the 32-bit two's complement integer v, most significant first.
IntBytesBE(v) ==
  << (v \div 16777216) % 256, (v \div 65536) % 256, (v \div 256) % 256, v % 256 >>

Reverse4(s) == << s[4], s[3], s[2], s[1] >>

\* The signed 32-bit integer whose big-endian bytes are s[1..4].
ComposeBE(s) ==
  (IF s[1] >= 128 THEN s[1] - 256 ELSE s[1]) * 16777216 + s[2] * 65536 + s[3] * 256 + s[4]

\* Buf::WriteInt / Buf::ReadInt: the flag le selects the order in which the four
\* bytes are laid out; writer and reader with the same flag agree.
IntBytes(v, le) == IF le THEN IntBytesBE(v) ELSE Reverse4(IntBytesBE(v))

ComposeInt(s, le) == IF le THEN ComposeBE(s) ELSE ComposeBE(Reverse4(s))

\* A 64-bit integer is kept as its two 32-bit halves << high, low >>.
LongOf(v) == << IF v < 0 THEN -1 ELSE 0, v >>

LongBytes(l, le) ==
  IF le THEN IntBytesBE(l[1]) \o IntBytesBE(l[2])
        ELSE Reverse4(IntBytesBE(l[2])) \o Reverse4(IntBytesBE(l[1]))

ComposeLong(s, le) ==
  IF le THEN << ComposeBE(SubSeq(s, 1, 4)), ComposeBE(SubSeq(s, 5, 8)) >>
        ELSE << ComposeBE(Reverse4(SubSeq(s, 5, 8))), ComposeBE(Reverse4(SubSeq(s, 1, 4))) >>

\* --------------------------------------------------------------------- Buf
\* A cursor over an immutable byte string s: forward_pos_ counts from the head,
\* reverse_pos_ from the tail (both 0-based, as in the code).  Every read
\* returns [ok, v, buf]; ok = FALSE is a read past the available bytes, which
\* the cursor raises as a hard failure.

Buf(s) == [forward_pos_ |-> 0, reverse_pos_ |-> Len(s) - 1]

BufSkip(b, k) == [b EXCEPT !.forward_pos_ = @ + k]

BufReverseSkip(b, k) == [b EXCEPT !.reverse_pos_ = @ - k]

BufIsEnd(b) == b.reverse_pos_ - b.forward_pos_ + 1 = 0

BufReadBytes(s, b, k) ==
  IF b.forward_pos_ >= 0 /\ b.forward_pos_ + k <= Len(s)
  THEN [ok |-> TRUE, v |-> SubSeq(s, b.forward_pos_ + 1, b.forward_pos_ + k),
        buf |-> BufSkip(b, k)]
  ELSE [ok |-> FALSE, v |-> << >>, buf |-> b]

BufRead(s, b) ==
  LET r == BufReadBytes(s, b, 1)
  IN  [ok |-> r.ok, v |-> IF r.ok THEN r.v[1] ELSE 0, buf |-> r.buf]

BufReadInt(s, b, le) ==
  LET r == BufReadBytes(s, b, 4)
  IN  [ok |-> r.ok, v |-> IF r.ok THEN ComposeInt(r.v, le) ELSE 0, buf |-> r.buf]

BufReadLong(s, b, le) ==
  LET r == BufReadBytes(s, b, 8)
  IN  [ok |-> r.ok, v |-> IF r.ok THEN ComposeLong(r.v, le) ELSE << 0, 0 >>, buf |-> r.buf]

BufReverseRead(s, b) ==
  IF b.reverse_pos_ >= 0 /\ b.reverse_pos_ < Len(s)
  THEN [ok |-> TRUE, v |-> s[b.reverse_pos_ + 1], buf |-> BufReverseSkip(b, 1)]
  ELSE [ok |-> FALSE, v |-> 0, buf |-> b]

\* ----------------------------------------------------------- column schemas
\* BaseSchema / DingoSchema<std::optional<T>>.  Two of the twelve physical
\* types are modelled, one of fixed and one of variable length.  A schema slot
\* is the record [present, type, is_key, index]; a null shared_ptr in the
\* schema list is a slot with present = FALSE.

Types == {"int32", "string"}

NullSlot == [present |-> FALSE, type |-> "int32", is_key |-> FALSE, index |-> 0]

Column(t, k, i) == [present |-> TRUE, type |-> t, is_key |-> k, index |-> i]

\* A std::any of the output record: empty, or holding a std::optional<T> that is
\* std::nullopt (has_value = FALSE) or a value (v: <<i>> for an int32, the bytes
\* of a string).
EmptyAny == [type |-> "empty", has_value |-> FALSE, v |-> << >>]

NullOpt(t) == [type |-> t, has_value |-> FALSE, v |-> << >>]

Some(t, v) == [type |-> t, has_value |-> TRUE, v |-> v]

\* Key integers are stored with the sign bit flipped (so that byte order is
\* numeric order); FlipSign is its own inverse on 32-bit integers.
FlipSign(v) == IF v < 0 THEN v + 2147483647 + 1 ELSE v - 2147483647 - 1

\* The encoder's layout of one column: a null flag byte, then the payload.  An
\* int32 takes five bytes whether null or not; a string is the flag, its length
\* and its bytes, or the flag alone when null.
EncodeKey(t, x, le) ==
  IF t = "int32"
  THEN IF x.has_value THEN << 1 >> \o IntBytes(FlipSign(x.v[1]), le) ELSE << 0, 0, 0, 0, 0 >>
  ELSE IF x.has_value THEN << 1 >> \o IntBytes(Len(x.v), le) \o x.v ELSE << 0 >>

EncodeValue(t, x, le) ==
  IF t = "int32"
  THEN IF x.has_value THEN << 1 >> \o IntBytes(x.v[1], le) ELSE << 0, 0, 0, 0, 0 >>
  ELSE IF x.has_value THEN << 1 >> \o IntBytes(Len(x.v), le) \o x.v ELSE << 0 >>

\* DingoSchema<T>::DecodeKey / DecodeValue: [ok, v, buf].
DecodeString(s, b, le) ==
  LET f == BufRead(s, b)
      n == BufReadInt(s, f.buf, le)
      d == BufReadBytes(s, n.buf, n.v)
  IN  IF ~f.ok THEN [ok |-> FALSE, v |-> EmptyAny, buf |-> b]
      ELSE IF f.v = 0 THEN [ok |-> TRUE, v |-> NullOpt("string"), buf |-> f.buf]
      ELSE IF ~n.ok \/ n.v < 0 THEN [ok |-> FALSE, v |-> EmptyAny, buf |-> b]
      ELSE IF ~d.ok THEN [ok |-> FALSE, v |-> EmptyAny, buf |-> b]
      ELSE [ok |-> TRUE, v |-> Some("string", d.v), buf |-> d.buf]

DecodeInt(s, b, le, key) ==
  LET f == BufRead(s, b)
      n == BufReadInt(s, f.buf, le)
  IN  IF ~f.ok THEN [ok |-> FALSE, v |-> EmptyAny, buf |-> b]
      ELSE IF f.v = 0 THEN [ok |-> TRUE, v |-> NullOpt("int32"), buf |-> BufSkip(f.buf, 4)]
      ELSE IF ~n.ok THEN [ok |-> FALSE, v |-> EmptyAny, buf |-> b]
      ELSE [ok |-> TRUE, v |-> Some("int32", << IF key THEN FlipSign(n.v) ELSE n.v >>),
            buf |-> n.buf]

SchemaDecodeKey(t, s, b, le) ==
  IF t = "int32" THEN DecodeInt(s, b, le, TRUE) ELSE DecodeString(s, b, le)

SchemaDecodeValue(t, s, b, le) ==
  IF t = "int32" THEN DecodeInt(s, b, le, FALSE) ELSE DecodeString(s, b, le)

\* DingoSchema<T>::SkipKey / SkipValue: [ok, buf].  A fixed-length column is
\* skipped by its width without a read; a variable-length one reads its flag and
\* length.
SchemaSkip(t, s, b, le) ==
  IF t = "int32" THEN [ok |-> TRUE, buf |-> BufSkip(b, 5)]
  ELSE LET f == BufRead(s, b)
           n == BufReadInt(s, f.buf, le)
       IN  IF ~f.ok THEN [ok |-> FALSE, buf |-> b]
           ELSE IF f.v = 0 THEN [ok |-> TRUE, buf |-> f.buf]
           ELSE IF ~n.ok \/ n.v < 0 THEN [ok |-> FALSE, buf |-> b]
           ELSE [ok |-> TRUE, buf |-> BufSkip(n.buf, n.v)]

SchemaSkipKey(t, s, b, le) == SchemaSkip(t, s, b, le)

SchemaSkipValue(t, s, b, le) == SchemaSkip(t, s, b, le)

\* ------------------------------------------------------------------- state

\* The decoder's fields (set by Init, lines 89-97) ...
VARIABLES schema_version_, schemas_, common_id_, codec_version_, le_

\* ... the arguments of each decode call: args[c] = [kind, key, value,
\* column_indexes]; kind names the entry point ("Decode", "DecodeKey",
\* "DecodeProjected") ...
VARIABLES args

\* ... and each call's locals, frame[c]: pc (where the call stands), key_buf,
\* value_buf, the caller's record, n, m, record_index, col_index_mapping, it
\* (the position of the range-for over *schemas_; DecodeKey's index counts the
\* same positions), ret (the returned status once pc = "Done") and log (one
\* entry per schema slot visited: the cursor operation made for it).
VARIABLES frame

\* How the caller runs the calls: in turn (FALSE) or as concurrent threads.
VARIABLES concurrent

\* How the stored row was produced: given = [vals, written, family], the
\* original value of each schema slot and the number of value columns the
\* writer's schema held.
VARIABLES given

decoderVars == << schema_version_, schemas_, common_id_, codec_version_, le_ >>

vars == << schema_version_, schemas_, common_id_, codec_version_, le_,
           args, frame, concurrent, given >>

\* The calls the caller makes, one or two.
Calls == DOMAIN args

Decoder ==
  [schema_version_ |-> schema_version_, schemas_ |-> schemas_,
   common_id_ |-> common_id_, codec_version_ |-> codec_version_, le_ |-> le_]

\* ----------------------------------------------------- header validation

\* RecordDecoderV1::CheckPrefix: [ok, pass, buf].
CheckPrefix(d, s, b) ==
  LET r == BufReadLong(s, BufSkip(b, 1), d.le_)
  IN  [ok |-> r.ok, pass |-> r.ok /\ r.v = d.common_id_, buf |-> r.buf]

\* CheckReverseTag with the comparison to codec_version_ dropped: every tag passes.
CheckReverseTagAnyTag(d, s, b) ==
  LET r == BufReverseRead(s, b)
  IN  [ok |-> r.ok, pass |-> r.ok, buf |-> IF r.ok THEN BufReverseSkip(r.buf, 3) ELSE r.buf]

\* RecordDecoderV1::CheckReverseTag.
CheckReverseTag(d, s, b) ==
  LET r == BufReverseRead(s, b)
      pass == r.ok /\ r.v <= d.codec_version_
  IN  [ok |-> r.ok, pass |-> pass,
       buf |-> IF pass THEN BufReverseSkip(r.buf, 3) ELSE r.buf]

\* RecordDecoderV1::CheckSchemaVersion.
CheckSchemaVersion(d, s, b) ==
  LET r == BufReadInt(s, b, d.le_)
  IN  [ok |-> r.ok, pass |-> r.ok /\ r.v <= d.schema_version_, buf |-> r.buf]

\* ------------------------------------------------------------ type dispatch

\* std::vector::resize: the elements kept, new ones empty.
Resize(record, k) == [i \in 1..k |-> IF i <= Len(record) THEN record[i] ELSE EmptyAny]

\* record.at(i) = x, with i 0-based: [ok, record]; ok = FALSE is std::out_of_range.
RecordAtPut(record, i, x) ==
  IF i >= 0 /\ i < Len(record)
  THEN [ok |-> TRUE, record |-> [record EXCEPT ![i + 1] = x]]
  ELSE [ok |-> FALSE, record |-> record]

\* CastAndDecodeOrSkip without the end-of-data test of its decode branch: a value
\* column is always decoded from the value cursor.
CastAndDecodeOrSkipNoEndTest(schema, ks, key_buf, vs, value_buf, record, record_index, skip, le) ==
  LET same == [ok |-> TRUE, key_buf |-> key_buf, value_buf |-> value_buf, record |-> record]
  IN
  IF skip THEN
    IF schema.is_key THEN
      LET r == SchemaSkipKey(schema.type, ks, key_buf, le)
      IN  [same EXCEPT !.ok = r.ok, !.key_buf = r.buf] @@ [op |-> "SkipKey"]
    ELSE IF ~BufIsEnd(value_buf) THEN
      LET r == SchemaSkipValue(schema.type, vs, value_buf, le)
      IN  [same EXCEPT !.ok = r.ok, !.value_buf = r.buf] @@ [op |-> "SkipValue"]
    ELSE same @@ [op |-> "None"]
  ELSE
    IF schema.is_key THEN
      LET r == SchemaDecodeKey(schema.type, ks, key_buf, le)
          w == RecordAtPut(record, record_index, r.v)
      IN  [same EXCEPT !.ok = r.ok /\ w.ok, !.key_buf = r.buf,
                       !.record = IF r.ok THEN w.record ELSE record] @@ [op |-> "DecodeKey"]
    ELSE
      LET r == SchemaDecodeValue(schema.type, vs, value_buf, le)
          w == RecordAtPut(record, record_index, r.v)
      IN  [same EXCEPT !.ok = r.ok /\ w.ok, !.value_buf = r.buf,
                       !.record = IF r.ok THEN w.record ELSE record] @@ [op |-> "DecodeValue"]

\* CastAndDecodeOrSkip<T>: ks/vs are the bytes under key_buf/value_buf.  Returns
\* the cursors and the record after the call, ok (no exception) and op, the
\* cursor operation that was made.
CastAndDecodeOrSkip(schema, ks, key_buf, vs, value_buf, record, record_index, skip, le) ==
  LET same == [ok |-> TRUE, key_buf |-> key_buf, value_buf |-> value_buf, record |-> record]
  IN
  IF skip THEN
    IF schema.is_key THEN
      LET r == SchemaSkipKey(schema.type, ks, key_buf, le)
      IN  [same EXCEPT !.ok = r.ok, !.key_buf = r.buf] @@ [op |-> "SkipKey"]
    ELSE IF ~BufIsEnd(value_buf) THEN
      LET r == SchemaSkipValue(schema.type, vs, value_buf, le)
      IN  [same EXCEPT !.ok = r.ok, !.value_buf = r.buf] @@ [op |-> "SkipValue"]
    ELSE same @@ [op |-> "None"]
  ELSE
    IF schema.is_key THEN
      LET r == SchemaDecodeKey(schema.type, ks, key_buf, le)
          w == RecordAtPut(record, record_index, r.v)
      IN  [same EXCEPT !.ok = r.ok /\ w.ok, !.key_buf = r.buf,
                       !.record = IF r.ok THEN w.record ELSE record] @@ [op |-> "DecodeKey"]
    ELSE IF BufIsEnd(value_buf) THEN
      LET w == RecordAtPut(record, record_index, NullOpt(schema.type))
      IN  [same EXCEPT !.ok = w.ok, !.record = w.record] @@ [op |-> "Absent"]
    ELSE
      LET r == SchemaDecodeValue(schema.type, vs, value_buf, le)
          w == RecordAtPut(record, record_index, r.v)
      IN  [same EXCEPT !.ok = r.ok /\ w.ok, !.value_buf = r.buf,
                       !.record = IF r.ok THEN w.record ELSE record] @@ [op |-> "DecodeValue"]

\* DecodeOrSkip: the dispatch table holds CastAndDecodeOrSkip<T> at the ordinal
\* of each type T.
DecodeOrSkip(schema, ks, key_buf, vs, value_buf, record, record_index, skip, le) ==
  CastAndDecodeOrSkip(schema, ks, key_buf, vs, value_buf, record, record_index, skip, le)

\* --------------------------------------------------- the steps of one call
\* Each step maps the decoder d, the call's arguments a and its locals f to
\* the locals after the step.

Throw(f) == [f EXCEPT !.pc = "Thrown"]

Return(f, status) == [f EXCEPT !.pc = "Done", !.ret = status]

\* if (!CheckPrefix(key_buf)) return -1;
DoCheckPrefix(d, a, f) ==
  LET r == CheckPrefix(d, a.key, f.key_buf)
      g == [f EXCEPT !.key_buf = r.buf]
  IN  IF ~r.ok THEN Throw(g)
      ELSE IF ~r.pass THEN Return(g, -1)
      ELSE [g EXCEPT !.pc = "CheckReverseTag"]

\* if (!CheckReverseTag(key_buf)) return -1;  DecodeKey goes on to its resize,
\* the two Decodes to the schema version check.
DoCheckReverseTag(d, a, f) ==
  LET r == CheckReverseTag(d, a.key, f.key_buf)
      g == [f EXCEPT !.key_buf = r.buf]
  IN  IF ~r.ok THEN Throw(g)
      ELSE IF ~r.pass THEN Return(g, -1)
      ELSE [g EXCEPT !.pc = IF a.kind = "DecodeKey" THEN "Resize" ELSE "CheckSchemaVersion"]

\* if (!CheckSchemaVersion(value_buf)) return -1;
DoCheckSchemaVersion(d, a, f) ==
  LET r == CheckSchemaVersion(d, a.value, f.value_buf)
      g == [f EXCEPT !.value_buf = r.buf]
  IN  IF ~r.ok THEN Throw(g)
      ELSE IF ~r.pass THEN Return(g, -1)
      ELSE [g EXCEPT !.pc = "Resize"]

\* record.resize(schemas_->size());  (Decode and DecodeKey)
DoResize(d, a, f) ==
  [f EXCEPT !.record = Resize(f.record, Len(d.schemas_)), !.pc = "Loop"]

\* What one visit of a schema slot did, for the log.
Visit(f, op, index) == Append(f.log, [slot |-> f.it, op |-> op, index |-> index])

\* The locals after DecodeOrSkip returned r for the slot at f.it.
AfterDecodeOrSkip(f, r, record_index) ==
  LET g == [f EXCEPT !.key_buf = r.key_buf, !.value_buf = r.value_buf,
                     !.record = r.record, !.log = Visit(f, r.op, record_index)]
  IN  IF r.ok THEN [g EXCEPT !.it = @ + 1] ELSE Throw(g)

\* DoDecodeLoop writing each column at its list position, not at GetIndex().
DoDecodeLoopByPosition(d, a, f) ==
  IF f.it >= Len(d.schemas_) THEN Return(f, 0)
  ELSE LET bs == d.schemas_[f.it + 1]
       IN  IF bs.present
           THEN AfterDecodeOrSkip(f, DecodeOrSkip(bs, a.key, f.key_buf, a.value, f.value_buf,
                                                  f.record, f.it, FALSE, d.le_), f.it)
           ELSE [f EXCEPT !.it = @ + 1, !.log = Visit(f, "NotVisited", -1)]

\* Decode: one turn of  for (bs : *schemas_) if (bs) DecodeOrSkip(bs, key_buf,
\* value_buf, record, bs->GetIndex(), false);  and the return 0 after the loop.
DoDecodeLoop(d, a, f) ==
  IF f.it >= Len(d.schemas_) THEN Return(f, 0)
  ELSE LET bs == d.schemas_[f.it + 1]
       IN  IF bs.present
           THEN AfterDecodeOrSkip(f, DecodeOrSkip(bs, a.key, f.key_buf, a.value, f.value_buf,
                                                  f.record, bs.index, FALSE, d.le_), bs.index)
           ELSE [f EXCEPT !.it = @ + 1, !.log = Visit(f, "NotVisited", -1)]

\* DoDecodeKeyLoop writing each key column at GetIndex(), not at index.
DoDecodeKeyLoopByIndex(d, a, f) ==
  IF f.it >= Len(d.schemas_) THEN Return(f, 0)
  ELSE LET bs == d.schemas_[f.it + 1]
       IN  IF bs.present /\ bs.is_key
           THEN LET r == DecodeOrSkip(bs, a.key, f.key_buf, a.key, f.key_buf,
                                      f.record, bs.index, FALSE, d.le_)
                IN  AfterDecodeOrSkip(f, [r EXCEPT !.value_buf = f.value_buf], bs.index)
           ELSE [f EXCEPT !.it = @ + 1, !.log = Visit(f, "NotVisited", -1)]

\* DecodeKey: one turn of  for (bs : *schemas_) { if (bs && bs->IsKey())
\* DecodeOrSkip(bs, key_buf, key_buf, record, index, false); index++; }
DoDecodeKeyLoop(d, a, f) ==
  IF f.it >= Len(d.schemas_) THEN Return(f, 0)
  ELSE LET bs == d.schemas_[f.it + 1]
           index == f.it
       IN  IF bs.present /\ bs.is_key
           THEN LET r == DecodeOrSkip(bs, a.key, f.key_buf, a.key, f.key_buf,
                                      f.record, index, FALSE, d.le_)
                IN  AfterDecodeOrSkip(f, [r EXCEPT !.value_buf = f.value_buf], index)
           ELSE [f EXCEPT !.it = @ + 1, !.log = Visit(f, "NotVisited", -1)]

\* ------------------------------------------------------ projection planner

\* operator< of std::pair<int, int>.
PairLess(p, q) == p[1] < q[1] \/ (p[1] = q[1] /\ p[2] < q[2])

RECURSIVE InsertSorted(_, _)
InsertSorted(p, sorted) ==
  IF sorted = << >> THEN << p >>
  ELSE IF PairLess(p, Head(sorted)) THEN << p >> \o sorted
  ELSE << Head(sorted) >> \o InsertSorted(p, Tail(sorted))

\* std::sort(col_index_mapping.begin(), col_index_mapping.end()).
RECURSIVE SortPairs(_)
SortPairs(ps) == IF ps = << >> THEN << >> ELSE InsertSorted(Head(ps), SortPairs(Tail(ps)))

\* col_index_mapping: (column_indexes[i], i) for every i, sorted.
ColIndexMapping(column_indexes) ==
  SortPairs([i \in 1..Len(column_indexes) |-> << column_indexes[i], i - 1 >>])

\* IsSkipOnly matching a request at or before the position counter (<= for ==).
IsSkipOnlyAtOrBefore(indexed_mapping_index, n, m, record_index) ==
  LET first == indexed_mapping_index[n + 1][1]
      second == indexed_mapping_index[n + 1][2]
  IN  IF first <= m
      THEN [skip |-> FALSE, n |-> n + 1, m |-> m + 1, record_index |-> second]
      ELSE [skip |-> TRUE, n |-> n, m |-> m + 1, record_index |-> record_index]

\* IsSkipOnly: n, m and record_index are in-out parameters.
IsSkipOnly(indexed_mapping_index, n, m, record_index) ==
  LET first == indexed_mapping_index[n + 1][1]
      second == indexed_mapping_index[n + 1][2]
  IN  IF first = m
      THEN [skip |-> FALSE, n |-> n + 1, m |-> m + 1, record_index |-> second]
      ELSE [skip |-> TRUE, n |-> n, m |-> m + 1, record_index |-> record_index]

\* Projected Decode, lines 212-233: the resize, the counters and the sorted plan.
DoProjectedPlan(d, a, f) ==
  [f EXCEPT !.record = Resize(f.record, Len(a.column_indexes)),
            !.n = 0, !.m = 0, !.record_index = 0,
            !.col_index_mapping = ColIndexMapping(a.column_indexes),
            !.pc = "Loop"]

\* DoProjectedLoop with the position counter advanced at absent slots too.
DoProjectedLoopCountingAbsent(d, a, f) ==
  IF f.it >= Len(d.schemas_) THEN Return(f, 0)
  ELSE IF Len(a.column_indexes) = f.n THEN Return(f, 0)
  ELSE LET bs == d.schemas_[f.it + 1]
       IN  IF bs.present
           THEN LET s == IsSkipOnly(f.col_index_mapping, f.n, f.m, f.record_index)
                    g == [f EXCEPT !.n = s.n, !.m = s.m, !.record_index = s.record_index]
                IN  AfterDecodeOrSkip(g, DecodeOrSkip(bs, a.key, f.key_buf, a.value, f.value_buf,
                                                      f.record, s.record_index, s.skip, d.le_),
                                      s.record_index)
           ELSE [f EXCEPT !.it = @ + 1, !.m = @ + 1, !.log = Visit(f, "NotVisited", -1)]

\* DoProjectedLoop without the early return: once every request is met, the
\* remaining present slots are skipped one by one.
DoProjectedLoopSkipRest(d, a, f) ==
  IF f.it >= Len(d.schemas_) THEN Return(f, 0)
  ELSE LET bs == d.schemas_[f.it + 1]
       IN  IF bs.present
           THEN LET s == IF Len(a.column_indexes) = f.n
                         THEN [skip |-> TRUE, n |-> f.n, m |-> f.m + 1,
                               record_index |-> f.record_index]
                         ELSE IsSkipOnly(f.col_index_mapping, f.n, f.m, f.record_index)
                    g == [f EXCEPT !.n = s.n, !.m = s.m, !.record_index = s.record_index]
                IN  AfterDecodeOrSkip(g, DecodeOrSkip(bs, a.key, f.key_buf, a.value, f.value_buf,
                                                      f.record, s.record_index, s.skip, d.le_),
                                      s.record_index)
           ELSE [f EXCEPT !.it = @ + 1, !.log = Visit(f, "NotVisited", -1)]

\* Projected Decode: one turn of the loop of lines 234-242 and the return 0
\* after it.
DoProjectedLoop(d, a, f) ==
  IF f.it >= Len(d.schemas_) THEN Return(f, 0)
  ELSE IF Len(a.column_indexes) = f.n THEN Return(f, 0)
  ELSE LET bs == d.schemas_[f.it + 1]
       IN  IF bs.present
           THEN LET s == IsSkipOnly(f.col_index_mapping, f.n, f.m, f.record_index)
                    g == [f EXCEPT !.n = s.n, !.m = s.m, !.record_index = s.record_index]
                IN  AfterDecodeOrSkip(g, DecodeOrSkip(bs, a.key, f.key_buf, a.value, f.value_buf,
                                                      f.record, s.record_index, s.skip, d.le_),
                                      s.record_index)
           ELSE [f EXCEPT !.it = @ + 1, !.log = Visit(f, "NotVisited", -1)]

\* The locals of a call about to run: Buf key_buf(key, le_); Buf
\* value_buf(value, le_); and the caller's record, empty.
NewFrame(a) ==
  [pc |-> "CheckPrefix", key_buf |-> Buf(a.key), value_buf |-> Buf(a.value),
   record |-> << >>, n |-> 0, m |-> 0, record_index |-> 0,
   col_index_mapping |-> << >>, it |-> 0, ret |-> 0, log |-> << >>]

Finished(f) == f.pc \in {"Done", "Thrown"}

\* The step the call takes next.
Step(d, a, f) ==
  CASE f.pc = "CheckPrefix" -> DoCheckPrefix(d, a, f)
    [] f.pc = "CheckReverseTag" -> DoCheckReverseTag(d, a, f)
    [] f.pc = "CheckSchemaVersion" -> DoCheckSchemaVersion(d, a, f)
    [] f.pc = "Resize" /\ a.kind = "DecodeProjected" -> DoProjectedPlan(d, a, f)
    [] f.pc = "Resize" /\ a.kind # "DecodeProjected" -> DoResize(d, a, f)
    [] f.pc = "Loop" /\ a.kind = "Decode" -> DoDecodeLoop(d, a, f)
    [] f.pc = "Loop" /\ a.kind = "DecodeKey" -> DoDecodeKeyLoop(d, a, f)
    [] f.pc = "Loop" /\ a.kind = "DecodeProjected" -> DoProjectedLoop(d, a, f)
    [] OTHER -> f

\* The call run from f to its end with no other call in between.
RECURSIVE RunAlone(_, _, _)
RunAlone(d, a, f) == IF Finished(f) THEN f ELSE RunAlone(d, a, Step(d, a, f))

\* ------------------------------------------------------------------ actions
\* A call takes one step at a time.  Run in turn, call 2 starts when call 1 has
\* ended; run concurrently, the steps of the calls interleave.

Runnable(c) ==
  /\ ~Finished(frame[c])
  /\ concurrent \/ \A o \in Calls : o < c => Finished(frame[o])

CallCheckPrefix(c) ==
  /\ Runnable(c) /\ frame[c].pc = "CheckPrefix"
  /\ frame' = [frame EXCEPT ![c] = DoCheckPrefix(Decoder, args[c], frame[c])]
  /\ UNCHANGED << decoderVars, args, concurrent, given >>

CallCheckReverseTag(c) ==
  /\ Runnable(c) /\ frame[c].pc = "CheckReverseTag"
  /\ frame' = [frame EXCEPT ![c] = DoCheckReverseTag(Decoder, args[c], frame[c])]
  /\ UNCHANGED << decoderVars, args, concurrent, given >>

\* CallCheckSchemaVersion with the decoder remembering the version it read.
CallCheckSchemaVersionRemembering(c) ==
  /\ Runnable(c) /\ frame[c].pc = "CheckSchemaVersion"
  /\ frame' = [frame EXCEPT ![c] = DoCheckSchemaVersion(Decoder, args[c], frame[c])]
  /\ schema_version_' =
       LET r == BufReadInt(args[c].value, frame[c].value_buf, le_)
       IN  IF r.ok /\ r.v <= schema_version_ THEN r.v ELSE schema_version_
  /\ UNCHANGED << schemas_, common_id_, codec_version_, le_, args, concurrent, given >>

CallCheckSchemaVersion(c) ==
  /\ Runnable(c) /\ frame[c].pc = "CheckSchemaVersion"
  /\ frame' = [frame EXCEPT ![c] = DoCheckSchemaVersion(Decoder, args[c], frame[c])]
  /\ UNCHANGED << decoderVars, args, concurrent, given >>

DecodeResize(c) ==
  /\ Runnable(c) /\ frame[c].pc = "Resize" /\ args[c].kind = "Decode"
  /\ frame' = [frame EXCEPT ![c] = DoResize(Decoder, args[c], frame[c])]
  /\ UNCHANGED << decoderVars, args, concurrent, given >>

DecodeLoop(c) ==
  /\ Runnable(c) /\ frame[c].pc = "Loop" /\ args[c].kind = "Decode"
  /\ frame' = [frame EXCEPT ![c] = DoDecodeLoop(Decoder, args[c], frame[c])]
  /\ UNCHANGED << decoderVars, args, concurrent, given >>

DecodeKeyResize(c) ==
  /\ Runnable(c) /\ frame[c].pc = "Resize" /\ args[c].kind = "DecodeKey"
  /\ frame' = [frame EXCEPT ![c] = DoResize(Decoder, args[c], frame[c])]
  /\ UNCHANGED << decoderVars, args, concurrent, given >>

DecodeKeyLoop(c) ==
  /\ Runnable(c) /\ frame[c].pc = "Loop" /\ args[c].kind = "DecodeKey"
  /\ frame' = [frame EXCEPT ![c] = DoDecodeKeyLoop(Decoder, args[c], frame[c])]
  /\ UNCHANGED << decoderVars, args, concurrent, given >>

ProjectedPlan(c) ==
  /\ Runnable(c) /\ frame[c].pc = "Resize" /\ args[c].kind = "DecodeProjected"
  /\ frame' = [frame EXCEPT ![c] = DoProjectedPlan(Decoder, args[c], frame[c])]
  /\ UNCHANGED << decoderVars, args, concurrent, given >>

\* ProjectedLoop with n and m kept in one place for all calls (the counters a
\* field of the decoder, held here in the first call's frame) instead of in locals.
ProjectedLoopSharedCounters(c) ==
  /\ Runnable(c) /\ frame[c].pc = "Loop" /\ args[c].kind = "DecodeProjected"
  /\ LET f == [frame[c] EXCEPT !.n = frame[1].n, !.m = frame[1].m]
         g == DoProjectedLoop(Decoder, args[c], f)
     IN  frame' = [x \in DOMAIN frame |->
                     IF x = c THEN g
                     ELSE IF x = 1 THEN [frame[1] EXCEPT !.n = g.n, !.m = g.m]
                     ELSE frame[x]]
  /\ UNCHANGED << decoderVars, args, concurrent, given >>

ProjectedLoop(c) ==
  /\ Runnable(c) /\ frame[c].pc = "Loop" /\ args[c].kind = "DecodeProjected"
  /\ frame' = [frame EXCEPT ![c] = DoProjectedLoop(Decoder, args[c], frame[c])]
  /\ UNCHANGED << decoderVars, args, concurrent, given >>

Next ==
  \/ \E c \in Calls : CallCheckPrefix(c)
  \/ \E c \in Calls : CallCheckReverseTag(c)
  \/ \E c \in Calls : CallCheckSchemaVersion(c)
  \/ \E c \in Calls : DecodeResize(c)
  \/ \E c \in Calls : DecodeLoop(c)
  \/ \E c \in Calls : DecodeKeyResize(c)
  \/ \E c \in Calls : DecodeKeyLoop(c)
  \/ \E c \in Calls : ProjectedPlan(c)
  \/ \E c \in Calls : ProjectedLoop(c)

\* ------------------------------------------------------------------- inputs

Absent == [present |-> FALSE, type |-> "int32", is_key |-> FALSE]

Shape(t, k) == [present |-> TRUE, type |-> t, is_key |-> k]

AllShapes == {Absent} \cup { Shape(t, k) : t \in Types, k \in BOOLEAN }

\* The schema list of the given shapes; the output indexes are the list
\* positions, in order or reversed (unique and within the list's length).
SchemaList(shapes, reversed) ==
  [i \in 1..Len(shapes) |->
     IF shapes[i].present
     THEN Column(shapes[i].type, shapes[i].is_key,
                 IF reversed THEN Len(shapes) - i ELSE i - 1)
     ELSE NullSlot]

SchemaLists(shapes, maxLen) ==
  { SchemaList(sh, rv) : sh \in UNION { [1..k -> shapes] : k \in 1..maxLen }, rv \in BOOLEAN }

\* The spec's scenario: [col0: int32 (value), col1: string (key)].
ScenarioList == << Column("int32", FALSE, 0), Column("string", TRUE, 1) >>

\* The original value of the column at list position p (0-based), by family:
\* every column of a row holds a value no other column of the row holds.
OriginalValue(family, t, p) ==
  CASE family = "plain" ->
         IF t = "int32" THEN Some(t, << 7 + p >>)
         ELSE Some(t, << 97, 98, 99 >> \o (IF p = 1 THEN << >> ELSE << 48 + p >>))
    [] family = "edge" ->
         IF t = "int32" THEN Some(t, << -1 - p >>) ELSE Some(t, [i \in 1..p |-> 97])
    [] OTHER -> NullOpt(t)

Originals(schemas, family) ==
  [i \in 1..Len(schemas) |->
     IF schemas[i].present THEN OriginalValue(family, schemas[i].type, i - 1) ELSE EmptyAny]

RECURSIVE Concat(_)
Concat(ss) == IF ss = << >> THEN << >> ELSE Head(ss) \o Concat(Tail(ss))

\* The positions (1-based) of the present key / value slots, in list order.
RECURSIVE Positions(_, _, _)
Positions(schemas, is_key, i) ==
  IF i > Len(schemas) THEN << >>
  ELSE (IF schemas[i].present /\ schemas[i].is_key = is_key THEN << i >> ELSE << >>)
       \o Positions(schemas, is_key, i + 1)

\* key = [namespace][table id][key columns in schema order][3 padding bytes][tag].
EncodedKey(schemas, vals, id, tag, le) ==
  LET ps == Positions(schemas, TRUE, 1)
  IN  << 0 >> \o LongBytes(LongOf(id), le)
      \o Concat([j \in 1..Len(ps) |-> EncodeKey(schemas[ps[j]].type, vals[ps[j]], le)])
      \o << 0, 0, 0 >> \o << tag >>

\* value = [schema version][value columns in schema order]; a writer under an
\* older schema wrote only the first `written` of them.
EncodedValue(schemas, vals, version, written, le) ==
  LET ps == Positions(schemas, FALSE, 1)
  IN  IntBytes(version, le)
      \o Concat([j \in 1..written |-> EncodeValue(schemas[ps[j]].type, vals[ps[j]], le)])

\* A stored row: its bytes (the value cut short by `chop` bytes when damaged)
\* and what they were made from.
Row(schemas, le, family, id, tag, version, written, chop) ==
  LET vals == Originals(schemas, family)
      v == EncodedValue(schemas, vals, version, written, le)
  IN  [key |-> EncodedKey(schemas, vals, id, tag, le),
       value |-> SubSeq(v, 1, Len(v) - chop),
       vals |-> vals, written |-> written, chop |-> chop,
       id |-> id, tag |-> tag, version |-> version]

Rows(schemas, le, Fams, Ids, Tags, Vers, Chops) ==
  { Row(schemas, le, fam, id, tag, ver, w, ch) :
      fam \in Fams, id \in Ids, tag \in Tags, ver \in Vers,
      w \in 0..Len(Positions(schemas, FALSE, 1)), ch \in Chops }

Projections(D, maxLen) == UNION { [1..k -> D] : k \in 0..maxLen }

\* The decoder is constructed for table 42 at schema version 2 and codec
\* version 1; the caller makes the calls of one of the sequences in Kinds, on
\* one row (sameRow) or on a row each, every projected call with the same
\* column_indexes.
InitWith(Lists, Les, Fams, Ids, Tags, Vers, Chops, Kinds, Projs, conc, sameRow) ==
  /\ schemas_ \in Lists
  /\ le_ \in Les
  /\ schema_version_ = 2
  /\ common_id_ = LongOf(42)
  /\ codec_version_ = 1
  /\ concurrent = conc
  /\ \E ks \in Kinds :
      \E p \in IF \E c \in DOMAIN ks : ks[c] = "DecodeProjected" THEN Projs ELSE {<< >>} :
        /\ \E r1 \in Rows(schemas_, le_, Fams, Ids, Tags, Vers, Chops) :
             \E r2 \in IF sameRow \/ Len(ks) = 1 THEN {r1}
                        ELSE Rows(schemas_, le_, Fams, Ids, Tags, Vers, Chops) :
               given = [c \in DOMAIN ks |-> IF c = 1 THEN r1 ELSE r2]
        /\ args = [c \in DOMAIN ks |->
                     [kind |-> ks[c], key |-> given[c].key, value |-> given[c].value,
                      column_indexes |-> IF ks[c] = "DecodeProjected" THEN p ELSE << >>]]
  /\ frame = [c \in DOMAIN args |-> NewFrame(args[c])]

EntryPoints == {"Decode", "DecodeKey", "DecodeProjected"}

Once == { << k >> : k \in EntryPoints }

Twice == { << k, k >> : k \in EntryPoints }

\* Rows written by the encoder under this or another schema version, each
\* decoded twice in turn.
Init ==
  InitWith(SchemaLists(AllShapes, MaxSlots), {TRUE}, {"plain", "edge", "null"}, {42}, {1}, {1, 2, 3}, {0},
           Twice, {<< 0 >>}, FALSE, TRUE)

Spec == Init /\ [][Next]_vars

\* Every header the three checks tell apart, over the scenario's schema list.
InitHeader ==
  InitWith({ScenarioList}, BOOLEAN, {"plain"}, {42, 43}, {0, 1, 2}, {1, 2, 3}, {0},
           Once, Projections(0..1, MaxProj), FALSE, TRUE)

SpecHeader == InitHeader /\ [][Next]_vars

\* Projected decode of a row the encoder wrote, for every projection
\* over the positions -1..MaxSlots, valid or not.
ProjectedShapes == {Absent, Shape("int32", TRUE), Shape("string", FALSE)}

InitProjected ==
  InitWith(SchemaLists(ProjectedShapes, MaxSlots), {TRUE}, {"plain"}, {42}, {1}, {2}, {0},
           Once, Projections(-1..MaxSlots, MaxProj), FALSE, TRUE)

SpecProjected == InitProjected /\ [][Next]_vars

\* The same over damaged rows: the value bytes have lost their last byte, or
\* their last six (which cuts into the length of a string column).
InitDamaged ==
  InitWith(SchemaLists(ProjectedShapes, MaxSlots), {TRUE}, {"plain"}, {42}, {1}, {2}, {1, 6},
           Once, Projections(0..(MaxSlots - 1), MaxProj), FALSE, TRUE)

SpecDamaged == InitDamaged /\ [][Next]_vars

\* Two threads decoding two rows at once.
InitConcurrent ==
  InitWith({ScenarioList, << NullSlot, Column("string", FALSE, 2), Column("int32", TRUE, 1) >>},
           {TRUE}, {"plain"}, {42}, {1}, {2, 3}, {0},
           EntryPoints \X EntryPoints,
           Projections(0..1, MaxProj), TRUE, FALSE)

SpecConcurrent == InitConcurrent /\ [][Next]_vars

\* =============================================================== properties

\* What the row of call c holds, as the writer made it.
WrongId(c) == LongOf(given[c].id) # common_id_

WrongTag(c) == given[c].tag > codec_version_

WrongVersion(c) == given[c].version > schema_version_

HeaderBad(c) == WrongId(c) \/ WrongTag(c) \/ WrongVersion(c)

NumValueColumns == Len(Positions(schemas_, FALSE, 1))

\* The number of present value slots among the first i slots of the list.
ValueRank(i) == Cardinality({ j \in 1..i : schemas_[j].present /\ ~schemas_[j].is_key })

\* Whole: every value column of the schema was written and no byte was lost.
WholeRow(c) == given[c].written = NumValueColumns /\ given[c].chop = 0

IsDecodeOp(op) == op \in {"DecodeKey", "DecodeValue", "Absent"}

\* C1: full and projected Decode reject (-1) a row whose table id differs from
\* the decoder's, or whose trailing key byte exceeds the codec version, or whose
\* leading value integer exceeds the schema version, whatever the other bytes
\* are; they go past the checks, and return 0, only when all three pass; the
\* status is -1 for each cause, and a rejected call has neither resized the
\* record nor decoded or skipped a column.
C1_HeaderRejection ==
  \A c \in Calls :
    args[c].kind \in {"Decode", "DecodeProjected"} =>
      LET f == frame[c]
      IN  /\ HeaderBad(c) =>
                /\ f.pc \in {"CheckPrefix", "CheckReverseTag", "CheckSchemaVersion", "Done"}
                /\ f.pc = "Done" => f.ret = -1
                /\ f.log = << >> /\ f.record = << >>
                /\ f.value_buf.forward_pos_ \in {0, 4}
          /\ (f.pc = "Done" /\ f.ret = 0) => ~HeaderBad(c)
          /\ (f.pc = "Done" /\ ~HeaderBad(c)) => f.ret = 0
          /\ (WrongId(c) \/ WrongTag(c)) => f.value_buf = Buf(args[c].value)

\* C1 witness: a projected call rejected for the schema version alone, the key
\* being well-formed.
C1_Witness ==
  \E c \in Calls :
    /\ args[c].kind = "DecodeProjected" /\ args[c].column_indexes # << >>
    /\ ~WrongId(c) /\ ~WrongTag(c) /\ WrongVersion(c)
    /\ frame[c].pc = "Done" /\ frame[c].ret = -1

\* C5: a row encoded in the documented layout under the decoder's schema
\* version, schema list and table id decodes (full Decode) with status 0 to a
\* record of the schema list's length that holds every present column's
\* original value at the column's output index.
C5_RoundTrip ==
  \A c \in Calls :
    ( /\ args[c].kind = "Decode" /\ Finished(frame[c])
      /\ ~WrongId(c) /\ ~WrongTag(c) /\ given[c].version = schema_version_
      /\ WholeRow(c) ) =>
        /\ frame[c].pc = "Done" /\ frame[c].ret = 0
        /\ Len(frame[c].record) = Len(schemas_)
        /\ \A i \in 1..Len(schemas_) :
              schemas_[i].present =>
                frame[c].record[schemas_[i].index + 1] = given[c].vals[i]

\* C5 witness: the scenario, [col0 int32 value, col1 string key], table 42,
\* value 7 and key "abc", decoded to [7, "abc"].
C5_Witness ==
  /\ schemas_ = ScenarioList
  /\ args[1].kind = "Decode" /\ WholeRow(1) /\ given[1].version = schema_version_
  /\ frame[1].pc = "Done" /\ frame[1].ret = 0
  /\ frame[1].record = << Some("int32", << 7 >>), Some("string", << 97, 98, 99 >>) >>

\* C4: full Decode of a row written under a version <= the decoder's, holding
\* only the first `written` value columns, returns 0; a value column reached at
\* end-of-data gets the absent marker (an empty optional of its type), a written
\* one its value, and a key column is always decoded from the key bytes.
C4_ForwardCompatible ==
  \A c \in Calls :
    ( /\ args[c].kind = "Decode" /\ Finished(frame[c])
      /\ ~WrongId(c) /\ ~WrongTag(c) /\ ~WrongVersion(c)
      /\ given[c].chop = 0 ) =>
        /\ frame[c].pc = "Done" /\ frame[c].ret = 0
        /\ Len(frame[c].log) = Len(schemas_)
        /\ \A i \in 1..Len(schemas_) :
              LET bs == schemas_[i]
                  out == frame[c].record[bs.index + 1]
                  op == frame[c].log[i].op
              IN  bs.present =>
                    IF bs.is_key THEN op = "DecodeKey" /\ out = given[c].vals[i]
                    ELSE IF ValueRank(i) <= given[c].written
                         THEN op = "DecodeValue" /\ out = given[c].vals[i]
                         ELSE op = "Absent" /\ out = NullOpt(bs.type)

\* C4 witness: a row of an older version with a value column written, one
\* missing, and a key column that follows the missing one in the list.
C4_Witness ==
  \E c \in Calls :
    /\ args[c].kind = "Decode" /\ frame[c].pc = "Done" /\ frame[c].ret = 0
    /\ given[c].version < schema_version_
    /\ \E i, j, k \in 1..Len(frame[c].log) :
          /\ i < j /\ j < k
          /\ frame[c].log[i].op = "DecodeValue"
          /\ frame[c].log[j].op = "Absent"
          /\ frame[c].log[k].op = "DecodeKey"
          /\ frame[c].record[schemas_[i].index + 1].has_value
          /\ frame[c].record[schemas_[j].index + 1] = NullOpt(schemas_[j].type)

\* The bytes of the key columns among the first k slots of the list.
KeyBytesUpTo(c, k) ==
  LET ps == Positions(SubSeq(schemas_, 1, k), TRUE, 1)
  IN  Concat([j \in 1..Len(ps) |-> EncodeKey(schemas_[ps[j]].type, given[c].vals[ps[j]], le_)])

\* C6: DecodeKey makes the prefix and reverse-tag checks and never the schema
\* version check (the value bytes are never read), resizes the record to the
\* schema list's length, and in list order decodes from the key cursor exactly
\* the present key slots, each written at its list position (not its output
\* index); a value slot or an absent slot moves no cursor and writes nothing.
C6_DecodeKey ==
  \A c \in Calls :
    args[c].kind = "DecodeKey" =>
      LET f == frame[c]
          rejected == WrongId(c) \/ WrongTag(c)
          passed == f.pc \in {"Resize", "Loop"} \/ (f.pc = "Done" /\ f.ret = 0)
      IN  /\ f.pc # "CheckSchemaVersion"
          /\ f.value_buf = Buf(args[c].value)
          /\ passed => ~rejected /\ f.key_buf.reverse_pos_ = Len(args[c].key) - 5
          /\ rejected => f.log = << >> /\ f.record = << >>
          /\ f.pc = "Loop" \/ (f.pc = "Done" /\ f.ret = 0)
                => Len(f.record) = Len(schemas_)
          /\ Finished(f) =>
                /\ f.pc = "Done"
                /\ f.ret = IF rejected THEN -1 ELSE 0
                /\ ~rejected => Len(f.log) = Len(schemas_)
          /\ f.pc = "Loop" \/ (f.pc = "Done" /\ f.ret = 0)
                => /\ f.it = Len(f.log)
                   /\ f.key_buf.forward_pos_ = 9 + Len(KeyBytesUpTo(c, f.it))
          /\ \A j \in 1..Len(f.log) :
                /\ f.log[j].slot = j - 1
                /\ IF schemas_[j].present /\ schemas_[j].is_key
                   THEN /\ f.log[j].op = "DecodeKey" /\ f.log[j].index = j - 1
                        /\ f.record[j] = given[c].vals[j]
                   ELSE f.log[j].op = "NotVisited" /\ f.record[j] = EmptyAny

\* C6 witness: a key-only decode that succeeds on a row of a newer schema
\* version, over a list with an absent slot, a value slot and a key slot whose
\* output index is not its list position.
C6_Witness ==
  \E c \in Calls :
    /\ args[c].kind = "DecodeKey" /\ frame[c].pc = "Done" /\ frame[c].ret = 0
    /\ WrongVersion(c)
    /\ \E i, j, k \in 1..Len(schemas_) :
          /\ ~schemas_[i].present
          /\ schemas_[j].present /\ ~schemas_[j].is_key
          /\ schemas_[k].present /\ schemas_[k].is_key /\ schemas_[k].index # k - 1
          /\ frame[c].record[k].has_value

\* C7: decoding the same bytes twice with the same decoder (full, key-only or
\* projected) gives the same status and the same record, and no step of a
\* decode changes a field of the decoder or the input bytes.
C7_Idempotent ==
  [][ /\ decoderVars' = decoderVars
      /\ args' = args
      /\ ( /\ Len(args') = 2 /\ args'[1] = args'[2]
           /\ Finished(frame'[1]) /\ Finished(frame'[2]) ) =>
             /\ frame'[1].pc = frame'[2].pc
             /\ frame'[1].ret = frame'[2].ret
             /\ frame'[1].record = frame'[2].record ]_vars

\* C7 witness: the second decode of a row has ended like the first, with a
\* decoded value in the record.
C7_Witness ==
  /\ Len(args) = 2 /\ args[1] = args[2]
  /\ frame[1].pc = "Done" /\ frame[2].pc = "Done" /\ frame[2].ret = 0
  /\ frame[1].record = frame[2].record
  /\ \E i \in 1..Len(frame[2].record) : frame[2].record[i].has_value

\* C8: under every interleaving of the steps of concurrent calls, a call ends
\* with the status and the record it ends with when it runs alone.
C8_Independent ==
  \A c \in Calls :
    Finished(frame[c]) =>
      LET alone == RunAlone(Decoder, args[c], NewFrame(args[c]))
      IN  /\ frame[c].pc = alone.pc
          /\ frame[c].ret = alone.ret
          /\ frame[c].record = alone.record

\* C8 witness: two concurrent calls on different rows, the second ended with
\* success while the first is in the middle of its loop.
C8_Witness ==
  /\ concurrent /\ Len(args) = 2 /\ args[1].value # args[2].value
  /\ frame[1].pc = "Loop" /\ frame[1].it > 0
  /\ frame[2].pc = "Done" /\ frame[2].ret = 0
  /\ \E i \in 1..Len(frame[2].record) : frame[2].record[i].has_value

\* The list positions (1-based) of the present slots, in order.
RECURSIVE PresentPositions(_)
PresentPositions(i) ==
  IF i > Len(schemas_) THEN << >>
  ELSE (IF schemas_[i].present THEN << i >> ELSE << >>) \o PresentPositions(i + 1)

NumPresent == Len(PresentPositions(1))

DecodesIn(log, k) == Cardinality({ j \in 1..k : IsDecodeOp(log[j].op) })

\* C9: in projected Decode m advances exactly at present slots, so it is the
\* number of present slots visited so far, and a requested position p is matched
\* against the (p+1)-th present slot, not against the slot at list index p.
C9_PositionCounter ==
  \A c \in Calls :
    args[c].kind = "DecodeProjected" =>
      LET f == frame[c]
      IN  /\ f.m = Cardinality({ j \in 1..Len(f.log) : schemas_[f.log[j].slot + 1].present })
          /\ \A j \in 1..Len(f.log) :
                /\ f.log[j].slot = j - 1
                /\ schemas_[j].present <=> f.log[j].op # "NotVisited"
                /\ IsDecodeOp(f.log[j].op) =>
                     LET p == args[c].column_indexes[f.log[j].index + 1]
                     IN  /\ p \in 0..(NumPresent - 1)
                         /\ PresentPositions(1)[p + 1] = j

\* C9 witness: a request for position p decoded from a slot whose list index
\* is not p.
C9_Witness ==
  \E c \in Calls :
    /\ args[c].kind = "DecodeProjected" /\ frame[c].pc = "Done"
    /\ \E j \in 1..Len(frame[c].log) :
          /\ IsDecodeOp(frame[c].log[j].op)
          /\ args[c].column_indexes[frame[c].log[j].index + 1] # frame[c].log[j].slot

\* The j-th request of the sorted plan can never be matched: its position is
\* negative, not smaller than the number of present slots, or repeats that of
\* the request before it.
Stuck(plan, j) ==
  \/ plan[j][1] < 0
  \/ plan[j][1] >= NumPresent
  \/ j > 1 /\ plan[j][1] = plan[j - 1][1]

FirstStuck(plan) ==
  IF \E j \in 1..Len(plan) : Stuck(plan, j)
  THEN CHOOSE j \in 1..Len(plan) : Stuck(plan, j) /\ \A i \in 1..(j - 1) : ~Stuck(plan, i)
  ELSE Len(plan) + 1

\* C10: projected Decode of a row whose header passes returns 0 whatever
\* column_indexes holds.  The first request of the sorted plan that cannot be
\* matched stops the request counter: the requests before it are decoded, it and
\* every request after it are not, their output slots stay unwritten, and every
\* remaining present slot is skipped.
C10_BadRequests ==
  \A c \in Calls :
    (args[c].kind = "DecodeProjected" /\ ~HeaderBad(c) /\ given[c].chop = 0
     /\ Finished(frame[c])) =>
      LET f == frame[c]
          plan == ColIndexMapping(args[c].column_indexes)
          k == Len(plan)
          s == FirstStuck(plan)
      IN  /\ f.pc = "Done" /\ f.ret = 0
          /\ Len(f.record) = k
          /\ f.n = s - 1
          /\ \A j \in 1..k : (j >= s) <=> (f.record[plan[j][2] + 1] = EmptyAny)
          /\ s <= k =>
                /\ Len(f.log) = Len(schemas_)
                /\ DecodesIn(f.log, Len(f.log)) = s - 1
                /\ \A j \in 1..Len(f.log) :
                      (schemas_[j].present /\ DecodesIn(f.log, j) = s - 1
                       /\ ~IsDecodeOp(f.log[j].op))
                        => f.log[j].op \in {"SkipKey", "SkipValue", "None"}

\* C10 witness: column_indexes = << -1, p >> with p a valid position: nothing
\* is decoded, both output slots stay empty and the call returns 0.
C10_Witness ==
  \E c \in Calls :
    /\ args[c].kind = "DecodeProjected" /\ frame[c].pc = "Done" /\ frame[c].ret = 0
    /\ Len(args[c].column_indexes) = 2
    /\ args[c].column_indexes[1] = -1
    /\ args[c].column_indexes[2] \in 0..(NumPresent - 1)
    /\ frame[c].record = << EmptyAny, EmptyAny >>
    /\ frame[c].n = 0 /\ frame[c].m = NumPresent

Distinct(seq) == \A i, j \in 1..Len(seq) : seq[i] = seq[j] => i = j

\* C2: for distinct requested list positions that refer to present slots, in any
\* order, projected Decode of a row the encoder wrote returns a record of
\* exactly k values, the i-th being the value full Decode gives the column at
\* list position column_indexes[i].
C2_ProjectionEqualsFull ==
  \A c \in Calls :
    LET cols == args[c].column_indexes
    IN  ( /\ args[c].kind = "DecodeProjected" /\ Finished(frame[c])
          /\ ~HeaderBad(c) /\ given[c].chop = 0
          /\ Distinct(cols)
          /\ \A i \in 1..Len(cols) :
                cols[i] \in 0..(Len(schemas_) - 1) /\ schemas_[cols[i] + 1].present ) =>
            LET a == [args[c] EXCEPT !.kind = "Decode", !.column_indexes = << >>]
                full == RunAlone(Decoder, a, NewFrame(a))
            IN  /\ frame[c].pc = "Done" /\ frame[c].ret = 0
                /\ Len(frame[c].record) = Len(cols)
                /\ \A i \in 1..Len(cols) :
                      frame[c].record[i] = full.record[schemas_[cols[i] + 1].index + 1]

Requested(c) == { args[c].column_indexes[i] : i \in 1..Len(args[c].column_indexes) }

\* C3 as stated, for distinct requested positions within a schema list that has
\* every slot present (so that a slot's list position is also its count among
\* the present slots): a column whose position is not in the projection gets no
\* cursor operation, before or after the requested ones, and no error arises
\* from it.
C3_UnrequestedUntouched ==
  \A c \in Calls :
    ( /\ args[c].kind = "DecodeProjected"
      /\ \A i \in 1..Len(schemas_) : schemas_[i].present
      /\ Distinct(args[c].column_indexes)
      /\ Requested(c) \subseteq 0..(Len(schemas_) - 1) ) =>
      LET f == frame[c]
      IN  /\ \A j \in 1..Len(f.log) :
                f.log[j].slot \notin Requested(c) => f.log[j].op \in {"NotVisited", "None"}
          /\ (f.pc = "Thrown" /\ f.log # << >>) =>
                f.log[Len(f.log)].slot \in Requested(c)

\* C3 amended: once every request has been matched no further slot is visited,
\* so the columns after the last requested one get no cursor operation and raise
\* no error, damaged or not; a present slot visited before that and not matched
\* is skipped with the cursor (SkipKey; SkipValue unless the value cursor is at
\* end-of-data), never decoded into the record, and an error raised by a visit
\* ends the call.
C3_TrailingUntouched ==
  \A c \in Calls :
    args[c].kind = "DecodeProjected" =>
      LET f == frame[c]
          k == Len(args[c].column_indexes)
      IN  /\ f.pc \in {"Loop", "Done", "Thrown"} /\ f.log # << >> => f.n = DecodesIn(f.log, Len(f.log))
          /\ \A j \in 1..Len(f.log) :
                /\ DecodesIn(f.log, j - 1) < k
                /\ f.log[j].slot = j - 1
                /\ (schemas_[j].present /\ ~IsDecodeOp(f.log[j].op)) =>
                     IF schemas_[j].is_key THEN f.log[j].op = "SkipKey"
                     ELSE f.log[j].op \in {"SkipValue", "None"}
          /\ (f.pc = "Done" /\ f.ret = 0 /\ f.n = k /\ k > 0) =>
                /\ f.log # << >>
                /\ IsDecodeOp(f.log[Len(f.log)].op)
          /\ (f.pc = "Thrown" /\ f.log # << >>) =>
                f.log[Len(f.log)].op \in {"SkipKey", "SkipValue", "DecodeKey", "DecodeValue"}

\* C3 witness: a projected decode that returned 0 without visiting the damaged
\* last value column, which lies after the last requested one.
C3_Witness ==
  \E c \in Calls :
    /\ args[c].kind = "DecodeProjected" /\ frame[c].pc = "Done" /\ frame[c].ret = 0
    /\ given[c].chop > 0 /\ frame[c].log # << >>
    /\ \E i \in (Len(frame[c].log) + 1)..Len(schemas_) :
          /\ schemas_[i].present /\ ~schemas_[i].is_key
          /\ ValueRank(i) = given[c].written

====
